---- MODULE Spec2Model ----
(***************************************************************************)
(* tools/create_triage_tickets.py: one run of main() lists the failed      *)
(* clusters of the logs collector, pages through the existing triage       *)
(* tickets of the tracker, and creates a ticket for each failed cluster    *)
(* that has none.  A run is a process; the tracker and the collector are   *)
(* shared with every other run.                                            *)
(*                                                                         *)
(* Strings that the code splits are sequences of tokens in which the       *)
(* separator is a token of its own ("4.12.3" is <<"4", ".", "12", ".",     *)
(* "3">>); Str joins the tokens into the string the code formats with.     *)
(***************************************************************************)
EXTENDS Integers, Sequences, FiniteSets, TLC

\* ------------------------------------------------------------ bounds
MaxFailures == 2
MaxPages == 2
RaceMaxFailures == 1

\* ------------------------------------------------- program constants
DEFAULT_DAYS_TO_HANDLE == 30
DEFAULT_WATCHERS == <<"ronniela", "odepaz">>
LOGS_COLLECTOR == "http://assisted-logs-collector.usersys.redhat.com"
block_size == 100

Unbound == "<unbound>"

\* ------------------------------------------------------------ strings
RECURSIVE Str(_)
Str(toks) == IF toks = <<>> THEN "" ELSE Head(toks) \o Str(Tail(toks))

Range(s) == {s[k] : k \in 1..Len(s)}

\* Index of the first token equal to sep, 0 when there is none.
RECURSIVE FirstIndex(_, _, _)
FirstIndex(toks, sep, k) ==
    IF k > Len(toks) THEN 0
    ELSE IF toks[k] = sep THEN k
    ELSE FirstIndex(toks, sep, k + 1)

\* str.split(sep): every piece between separators.
RECURSIVE Split(_, _)
Split(toks, sep) ==
    LET k == FirstIndex(toks, sep, 1)
    IN IF k = 0 THEN <<toks>>
       ELSE <<SubSeq(toks, 1, k - 1)>> \o Split(SubSeq(toks, k + 1, Len(toks)), sep)

\* str.split(sep, 1): at most one split, at the first separator.
SplitOnce(toks, sep) ==
    LET k == FirstIndex(toks, sep, 1)
    IN IF k = 0 THEN <<toks>>
       ELSE <<SubSeq(toks, 1, k - 1), SubSeq(toks, k + 1, Len(toks))>>

\* ------------------------------------------------------------- inputs
\* Failure names listed by the collector: "<date>_<rest>".
OldName == <<"2026-10-01", "_", "cluster-abc">>
EdgeName == <<"2026-10-02", "_", "cluster", "_", "def">>
Names == {OldName, EdgeName}

\* ats.days_ago(date) on the day of the run (2026-11-01).
DaysAgo(date) ==
    CASE date = "2026-10-01" -> 31
      [] date = "2026-10-02" -> 30
      [] OTHER -> 0

\* The "cluster" object of a metadata.json document.
Cluster(status, version, id, user, domain) ==
    [status |-> status, openshift_version |-> version, id |-> id,
     user_name |-> user, email_domain |-> domain]

\* An openshift_version names at least a major and a minor release.
Clusters ==
    { Cluster("error", <<"4", ".", "12", ".", "3">>, "abc", "alice", "redhat.com"),
      Cluster("error", <<"4", ".", "6">>, "def", "bob", "example.org"),
      Cluster("installed", <<"4", ".", "12", ".", "3">>, "abc", "alice", "redhat.com") }

\* The body of a response that carries no cluster (an HTTP error page).
NoCluster == Cluster("", <<"0", ".", "0">>, "", "", "")

\* Responses of GET /files/<name>/metadata.json.
MetadataResponses ==
    {[status_code |-> 200, cluster |-> c] : c \in Clusters}
        \cup {[status_code |-> 500, cluster |-> NoCluster]}

\* The summary of the triage ticket of a failure, as the tickets of earlier
\* runs carry it.
SummaryOf(name) == "cloud.redhat.com failure: " \o Str(name)

\* Values of --user-password; None when the option is not given.
None == [given |-> FALSE, value |-> <<>>]
Given(toks) == [given |-> TRUE, value |-> toks]

UserPasswords ==
    { None,
      Given(<<"u", ":", "p", ":", "q">>),
      Given(<<"u", "p">>),
      Given(<<>>) }

RunIds == {1, 2}

\* ------------------------------------------------------------- state
VARIABLES
    tracker,          \* the tracker's triage issues: summaries, key = position
    listing,          \* the collector's /files/ listing: failure names
    active,           \* the runs that exist
    all,              \* arg.all of each run
    user_password,    \* arg.user_password of each run
    pc,               \* where each run is
    exc,              \* the exception or exit that ended the run
    username,         \* main's username
    password,         \* main's password
    failed_clusters,  \* main's failed_clusters
    idx,              \* get_all_triage_tickets' idx
    issues,           \* the issues accumulated (keys)
    summaries,        \* the summaries accumulated
    i,                \* position of the for loop in failed_clusters
    cluster,          \* main's cluster
    new_issue,        \* create_jira_ticket's new_issue (key), 0 when None
    w,                \* position of add_watchers' loop
    calls             \* history: the external calls each run made, in order

vars == <<tracker, listing, active, all, user_password, pc, exc, username, password,
          failed_clusters, idx, issues, summaries, i, cluster, new_issue, w, calls>>

env == <<tracker, listing, active, all, user_password>>

\* ------------------------------------------------- the code's functions
\* format_summary / JIRA_SUMMARY.format
format_summary(failure_id) == "cloud.redhat.com failure: " \o Str(failure_id)

\* format_labels
format_labels(failure_data) ==
    << "no-qe",
       "AI_CLOUD_TRIAGE",
       "AI_CLUSTER_" \o failure_data.cluster_id,
       "AI_USER_" \o failure_data.username,
       "AI_DOMAIN_" \o failure_data.domain >>

\* A slip: the whole version instead of its first two components.
ocp_key_whole(openshift_version) == Str(openshift_version)

\* major, minor, *_ = openshift_version.split("."); f"{major}.{minor}"
ocp_key(openshift_version) ==
    LET parts == Split(openshift_version, ".")
    IN Str(parts[1]) \o "." \o Str(parts[2])

ticket_affected_version_field(cluster_md) ==
    "OpenShift " \o ocp_key(cluster_md.openshift_version)

\* "{}/files/{}".format(LOGS_COLLECTOR, failure_id)
logs_url(failure_id) == LOGS_COLLECTOR \o "/files/" \o Str(failure_id)

\* failure["name"].split("_")[0]
date_prefix(name) == Str(Split(name, "_")[1])

\* A slip: >= for >.
TooOld_inclusive(arg_all, name) ==
    ~arg_all /\ DaysAgo(date_prefix(name)) >= DEFAULT_DAYS_TO_HANDLE

\* not arg.all and ats.days_ago(date) > DEFAULT_DAYS_TO_HANDLE
TooOld(arg_all, name) ==
    ~arg_all /\ DaysAgo(date_prefix(name)) > DEFAULT_DAYS_TO_HANDLE

\* A slip: the status of the response is never looked at.
RaisesForStatus_never(resp) == FALSE

\* res.raise_for_status() raises for a 4xx or 5xx response
RaisesForStatus(resp) == resp.status_code >= 400

\* A slip: every cluster counts as failed.
IsError_always(cluster_md) == TRUE

\* cluster['status'] == "error"
IsError(cluster_md) == cluster_md.status = "error"

\* A slip: the existing tickets are not consulted.
TicketExists_never(summary, existing_tickets) == FALSE

\* summary in existing_tickets
TicketExists(summary, existing_tickets) == summary \in existing_tickets

\* jclient.search_issues(query, maxResults=block_size, startAt=at): the keys
\* of the issues at positions at+1 .. at+block_size of the tracker's result.
search_issues(at) ==
    LET last == IF at + block_size < Len(tracker) THEN at + block_size
                ELSE Len(tracker)
    IN [k \in 1..(IF last > at THEN last - at ELSE 0) |-> at + k]

\* A slip: a page shorter than block_size ends the loop.
LastPage_short(issues_bulk) == Len(issues_bulk) < block_size

\* len(issues_bulk) == 0: the loop of get_all_triage_tickets breaks
LastPage(issues_bulk) == Len(issues_bulk) = 0

\* idx += block_size
NextIdx(at) == at + block_size

\* A slip: an empty tracker is taken for "no ticket exists".
NoIssues_never(all_issues) == FALSE

\* not issues
NoIssues(all_issues) == Len(all_issues) = 0

\* A variant: the tracker is looked at again when the ticket is about to be
\* created.
KnownSummaries_live(r) == summaries[r] \cup Range(tracker)

\* The existing_tickets main hands to create_jira_ticket: the set it fetched
\* once, before the loop.
KnownSummaries(r) == summaries[r]

\* A variant: the parse error is fatal.
AfterParseFailure_fatal == [pc |-> "raised", exc |-> "ValueError"]

\* What follows the except clause of the user:password parse: the error is
\* logged and main goes on to get_jira_client.
AfterParseFailure == [pc |-> "auth", exc |-> "none"]

\* --------------------------------------------------------------- Init
Filler(p) == "triage issue of page " \o ToString((p - 1) \div block_size)

ExistingSeqs == {<<>>, <<OldName>>, <<EdgeName>>, <<OldName, EdgeName>>}

\* A tracker of `total` issues in which the failures of `existing` have their
\* tickets, first or last.
TrackerOf(total, existing, front) ==
    LET n == Len(existing)
    IN [p \in 1..total |->
          IF front /\ p <= n THEN SummaryOf(existing[p])
          ELSE IF ~front /\ p > total - n THEN SummaryOf(existing[p - (total - n)])
          ELSE Filler(p)]

Totals == {0, 1} \cup {block_size * k + d : k \in 1..MaxPages, d \in {0, 1}}

Trackers ==
    UNION { {TrackerOf(total, e, front) :
                e \in {x \in ExistingSeqs : Len(x) <= total}, front \in BOOLEAN} :
            total \in Totals }

RECURSIVE SeqsUpTo(_, _)
SeqsUpTo(S, n) ==
    IF n = 0 THEN {<<>>}
    ELSE LET shorter == SeqsUpTo(S, n - 1)
         IN shorter \cup {Append(s, x) : s \in shorter, x \in S}

InitLocals ==
    /\ pc = [r \in RunIds |-> IF r \in active THEN "start" ELSE "absent"]
    /\ exc = [r \in RunIds |-> "none"]
    /\ username = [r \in RunIds |-> Unbound]
    /\ password = [r \in RunIds |-> Unbound]
    /\ failed_clusters = [r \in RunIds |-> <<>>]
    /\ idx = [r \in RunIds |-> 0]
    /\ issues = [r \in RunIds |-> <<>>]
    /\ summaries = [r \in RunIds |-> {}]
    /\ i = [r \in RunIds |-> 0]
    /\ cluster = [r \in RunIds |-> NoCluster]
    /\ new_issue = [r \in RunIds |-> 0]
    /\ w = [r \in RunIds |-> 0]
    /\ calls = [r \in RunIds |-> <<>>]

\* One run.
Init ==
    /\ active = {1}
    /\ tracker \in Trackers
    /\ listing \in SeqsUpTo(Names, MaxFailures)
    /\ all \in {f \in [RunIds -> BOOLEAN] : ~f[2]}
    /\ user_password \in {f \in [RunIds -> UserPasswords] : f[2] = None}
    /\ InitLocals

\* One run over a listing of at most one failure and every tracker.
InitSearch ==
    /\ Init
    /\ Len(listing) <= 1

\* Two runs at once, over one listing and one tracker.
InitRace ==
    /\ active = {1, 2}
    /\ tracker \in {TrackerOf(total, <<>>, TRUE) : total \in {0, 1}}
    /\ listing \in SeqsUpTo(Names, RaceMaxFailures)
    /\ all \in {f \in [RunIds -> BOOLEAN] : f[1] = f[2]}
    /\ user_password \in {f \in [RunIds -> UserPasswords] : f[1] = f[2]}
    /\ InitLocals

\* ------------------------------------------------------------ actions
Raise(r, e) ==
    /\ pc' = [pc EXCEPT ![r] = "raised"]
    /\ exc' = [exc EXCEPT ![r] = e]

Goto(r, where) ==
    /\ pc' = [pc EXCEPT ![r] = where]
    /\ UNCHANGED exc

Call(r, c) == calls' = [calls EXCEPT ![r] = Append(@, c)]

\* main, the credentials: get_credentials_from_netrc, or the parse of
\* --user-password under a bare except.
ResolveCredentials(r) ==
    /\ pc[r] = "start"
    /\ UNCHANGED <<env, failed_clusters, idx, issues, summaries, i, cluster,
                   new_issue, w>>
    /\ IF user_password[r] = None
       THEN \E found \in {"entry", "no entry", "no file"} :
              IF found = "entry"
              THEN /\ username' = [username EXCEPT ![r] = "netrc-user"]
                   /\ password' = [password EXCEPT ![r] = "netrc-password"]
                   /\ Goto(r, "auth")
                   /\ UNCHANGED calls
              ELSE /\ Raise(r, IF found = "no file" THEN "FileNotFoundError"
                                ELSE "TypeError")
                   /\ UNCHANGED <<username, password, calls>>
       ELSE LET parts == SplitOnce(user_password[r].value, ":")
            IN IF Len(parts) = 2
               THEN /\ username' = [username EXCEPT ![r] = Str(parts[1])]
                    /\ password' = [password EXCEPT ![r] = Str(parts[2])]
                    /\ Goto(r, "auth")
                    /\ UNCHANGED calls
               ELSE /\ Call(r, [op |-> "logger.error",
                                msg |-> "Failed to parse user:password"])
                    /\ pc' = [pc EXCEPT ![r] = AfterParseFailure.pc]
                    /\ exc' = [exc EXCEPT ![r] = AfterParseFailure.exc]
                    /\ UNCHANGED <<username, password>>

\* main: jclient = get_jira_client(username, password)
Authenticate(r) ==
    /\ pc[r] = "auth"
    /\ UNCHANGED <<env, username, password, failed_clusters, idx, issues,
                   summaries, i, cluster, new_issue, w>>
    /\ IF username[r] = Unbound
       THEN Raise(r, "UnboundLocalError") /\ UNCHANGED calls
       ELSE \E ok \in BOOLEAN :
              /\ Call(r, [op |-> "jira.JIRA", username |-> username[r],
                          password |-> password[r], ok |-> ok])
              /\ IF ok THEN Goto(r, "list") ELSE Raise(r, "JIRAError")

\* main: the listing of the failed clusters
ListFailures(r) ==
    /\ pc[r] = "list"
    /\ UNCHANGED <<env, username, password, i, cluster, new_issue, w>>
    /\ \E answer \in {"no connection", "500", "200"} :
         /\ Call(r, [op |-> "get_files", answer |-> answer])
         /\ IF answer = "no connection"
            THEN /\ pc' = [pc EXCEPT ![r] = "exited"]
                 /\ exc' = [exc EXCEPT ![r] = "SystemExit(1)"]
                 /\ UNCHANGED <<failed_clusters, idx, issues, summaries>>
            ELSE IF answer = "500"
            THEN /\ Raise(r, "HTTPError")
                 /\ UNCHANGED <<failed_clusters, idx, issues, summaries>>
            ELSE /\ failed_clusters' = [failed_clusters EXCEPT ![r] = listing]
                 /\ idx' = [idx EXCEPT ![r] = 0]
                 /\ issues' = [issues EXCEPT ![r] = <<>>]
                 /\ summaries' = [summaries EXCEPT ![r] = {}]
                 /\ Goto(r, "search")

\* get_all_triage_tickets: one turn of its loop, one search of the tracker
SearchIssues(r) ==
    /\ pc[r] = "search"
    /\ UNCHANGED <<env, username, password, failed_clusters, i, cluster,
                   new_issue, w>>
    /\ \E ok \in BOOLEAN :
         IF ~ok
         THEN /\ Call(r, [op |-> "search_issues", startAt |-> idx[r],
                          ok |-> FALSE, n |-> 0, sums |-> {}])
              /\ Raise(r, "JIRAError")
              /\ UNCHANGED <<idx, issues, summaries>>
         ELSE LET issues_bulk == search_issues(idx[r])
                  bulk_sums == {tracker[k] : k \in Range(issues_bulk)}
              IN /\ Call(r, [op |-> "search_issues", startAt |-> idx[r],
                             ok |-> TRUE, n |-> Len(issues_bulk),
                             sums |-> bulk_sums])
                 /\ IF LastPage(issues_bulk)
                    THEN /\ Goto(r, "check")
                         /\ UNCHANGED <<idx, issues, summaries>>
                    ELSE /\ summaries' = [summaries EXCEPT ![r] = @ \cup bulk_sums]
                         /\ issues' = [issues EXCEPT ![r] = @ \o issues_bulk]
                         /\ idx' = [idx EXCEPT ![r] = NextIdx(@)]
                         /\ Goto(r, "search")

\* main: if not issues: raise ConnectionError; else the for loop starts
CheckIssues(r) ==
    /\ pc[r] = "check"
    /\ UNCHANGED <<env, username, password, failed_clusters, idx, issues,
                   summaries, cluster, new_issue, w, calls>>
    /\ IF NoIssues(issues[r])
       THEN Raise(r, "ConnectionError") /\ UNCHANGED i
       ELSE Goto(r, "loop") /\ i' = [i EXCEPT ![r] = 1]

InLoop(r) == pc[r] = "loop" /\ i[r] <= Len(failed_clusters[r])

\* the for loop: a failure older than the threshold is passed over
SkipOld(r) ==
    /\ InLoop(r)
    /\ TooOld(all[r], failed_clusters[r][i[r]])
    /\ i' = [i EXCEPT ![r] = @ + 1]
    /\ UNCHANGED <<env, pc, exc, username, password, failed_clusters, idx,
                   issues, summaries, cluster, new_issue, w, calls>>

\* the for loop: the metadata of the failure is fetched; for a cluster in
\* error, create_jira_ticket starts and returns None for a known summary
FetchMetadata(r) ==
    LET name == failed_clusters[r][i[r]]
    IN /\ InLoop(r)
       /\ ~TooOld(all[r], name)
       /\ UNCHANGED <<env, username, password, failed_clusters, idx, issues,
                      summaries, new_issue, w>>
       /\ \E res \in MetadataResponses :
            /\ Call(r, [op |-> "get_metadata", i |-> i[r], name |-> name,
                        status_code |-> res.status_code, cluster |-> res.cluster])
            /\ IF RaisesForStatus(res)
               THEN Raise(r, "HTTPError") /\ UNCHANGED <<i, cluster>>
               ELSE /\ cluster' = [cluster EXCEPT ![r] = res.cluster]
                    /\ IF IsError(res.cluster)
                          /\ ~TicketExists(format_summary(name), KnownSummaries(r))
                       THEN Goto(r, "create") /\ UNCHANGED i
                       ELSE Goto(r, "loop") /\ i' = [i EXCEPT ![r] = @ + 1]

\* create_jira_ticket: jclient.create_issue
CreateIssue(r) ==
    LET name == failed_clusters[r][i[r]]
        key == Len(tracker) + 1
    IN /\ pc[r] = "create"
       /\ UNCHANGED <<listing, active, all, user_password, username, password,
                      failed_clusters, idx, issues, summaries, i, cluster>>
       /\ \E ok \in BOOLEAN :
            /\ Call(r, [op |-> "create_issue", i |-> i[r], ok |-> ok,
                        key |-> IF ok THEN key ELSE 0,
                        project |-> "MGMT",
                        summary |-> format_summary(name),
                        versions |-> <<ticket_affected_version_field(cluster[r])>>,
                        components |-> <<"Assisted-installer Triage">>,
                        priority |-> "Blocker",
                        issuetype |-> "Bug",
                        labels |-> format_labels(
                            [username |-> cluster[r].user_name,
                             domain |-> cluster[r].email_domain,
                             cluster_id |-> cluster[r].id])])
            /\ IF ~ok
               THEN /\ Raise(r, "JIRAError")
                    /\ UNCHANGED <<tracker, new_issue, w>>
               ELSE /\ tracker' = Append(tracker, format_summary(name))
                    /\ new_issue' = [new_issue EXCEPT ![r] = key]
                    /\ w' = [w EXCEPT ![r] = 1]
                    /\ Goto(r, "watch")

\* add_watchers: one jclient.add_watcher
AddWatcher(r) ==
    /\ pc[r] = "watch"
    /\ UNCHANGED <<env, username, password, failed_clusters, idx, issues,
                   summaries, i, cluster, new_issue>>
    /\ \E ok \in BOOLEAN :
         /\ Call(r, [op |-> "add_watcher", i |-> i[r], ok |-> ok,
                     key |-> new_issue[r], watcher |-> DEFAULT_WATCHERS[w[r]]])
         /\ IF ~ok
            THEN Raise(r, "JIRAError") /\ UNCHANGED w
            ELSE /\ w' = [w EXCEPT ![r] = @ + 1]
                 /\ Goto(r, IF w[r] < Len(DEFAULT_WATCHERS) THEN "watch"
                            ELSE "signatures")

\* main: ats.add_signatures for the issue create_jira_ticket returned
AddSignatures(r) ==
    /\ pc[r] = "signatures"
    /\ UNCHANGED <<env, username, password, failed_clusters, idx, issues,
                   summaries, cluster, new_issue, w>>
    /\ \E ok \in BOOLEAN :
         /\ Call(r, [op |-> "add_signatures", i |-> i[r], ok |-> ok,
                     key |-> new_issue[r],
                     url |-> logs_url(failed_clusters[r][i[r]])])
         /\ IF ~ok
            THEN Raise(r, "JIRAError") /\ UNCHANGED i
            ELSE Goto(r, "loop") /\ i' = [i EXCEPT ![r] = @ + 1]

\* main, after the loop: the closer runs when --filters-json is not empty
Finish(r) ==
    /\ pc[r] = "loop"
    /\ i[r] > Len(failed_clusters[r])
    /\ UNCHANGED <<env, username, password, failed_clusters, idx, issues,
                   summaries, i, cluster, new_issue, w>>
    /\ \E filters_json \in {"", "./triage_resolving_filters.json"} :
         /\ IF filters_json = ""
            THEN UNCHANGED calls
            ELSE Call(r, [op |-> "run_using_json", path |-> filters_json,
                          username |-> username[r], issues |-> issues[r]])
         /\ Goto(r, "done")

Next ==
    \/ \E r \in active : ResolveCredentials(r)
    \/ \E r \in active : Authenticate(r)
    \/ \E r \in active : ListFailures(r)
    \/ \E r \in active : SearchIssues(r)
    \/ \E r \in active : CheckIssues(r)
    \/ \E r \in active : SkipOld(r)
    \/ \E r \in active : FetchMetadata(r)
    \/ \E r \in active : CreateIssue(r)
    \/ \E r \in active : AddWatcher(r)
    \/ \E r \in active : AddSignatures(r)
    \/ \E r \in active : Finish(r)

Spec == Init /\ [][Next]_vars

\* A run is a sequential process that the interpreter keeps executing.
FairSpec == InitSearch /\ [][Next]_vars /\ WF_vars(Next)

SpecRace == InitRace /\ [][Next]_vars

\* ============================================================= claims
TicketOps == {"create_issue", "add_watcher", "add_signatures"}

CallIdx(r) == 1..Len(calls[r])

IsSearch(c) == c.op = "search_issues" /\ c.ok
IsMetadata(c) == c.op = "get_metadata"
IsCreate(c) == c.op = "create_issue"

\* The pages a run got from the tracker, and the summaries in them.
Pages(r) == SelectSeq(calls[r], IsSearch)
FetchedSet(r) == UNION {Pages(r)[k].sums : k \in 1..Len(Pages(r))}

\* The age the date at the head of a failure name has on the day of the run.
AgeOf(name) == DaysAgo(name[1])

\* The metadata fetches of run r that answered with a cluster in error.
ErrorFetches(r) ==
    {k \in CallIdx(r) : /\ IsMetadata(calls[r][k])
                        /\ calls[r][k].status_code = 200
                        /\ calls[r][k].cluster.status = "error"}

\* C1: a failure whose summary "cloud.redhat.com failure: <name>" is in the
\* set of existing summaries the run fetched gets no create_issue, no
\* add_watcher and no add_signatures call.
C1_NoTicketForKnownSummary ==
    \A r \in active : \A k \in CallIdx(r) :
        calls[r][k].op \in TicketOps =>
            SummaryOf(failed_clusters[r][calls[r][k].i]) \notin FetchedSet(r)

\* A run ended after it met a cluster in error whose ticket it had fetched.
C1_Witness ==
    \E r \in active :
        /\ pc[r] = "done"
        /\ \E k \in ErrorFetches(r) :
             /\ SummaryOf(calls[r][k].name) \in FetchedSet(r)
             /\ \A m \in CallIdx(r) :
                  calls[r][m].op \in TicketOps => calls[r][m].i # calls[r][k].i

\* C2: within one run, at most one create_issue call is made with the
\* summary of a given failure, whatever the listing (the same name twice
\* included).  Only the calls that created a ticket are counted here.
C2_AtMostOneCreatePerFailure ==
    \A r \in active : \A n \in Names :
        Cardinality({k \in CallIdx(r) :
                        /\ IsCreate(calls[r][k])
                        /\ calls[r][k].ok
                        /\ calls[r][k].summary = SummaryOf(n)}) <= 1

\* C3: a failure whose cluster status is not "error" gets no create_issue,
\* add_watcher or add_signatures call, whatever its age and --all.
C3_NoTicketUnlessError ==
    \A r \in active : \A k \in CallIdx(r) :
        (/\ IsMetadata(calls[r][k])
         /\ calls[r][k].cluster.status # "error")
        => \A m \in CallIdx(r) :
              calls[r][m].op \in TicketOps => calls[r][m].i # calls[r][k].i

\* A run with --all ended after it fetched an installed cluster older than
\* 30 days.
C3_Witness ==
    \E r \in active :
        /\ pc[r] = "done"
        /\ all[r]
        /\ \E k \in CallIdx(r) :
             /\ IsMetadata(calls[r][k])
             /\ calls[r][k].status_code = 200
             /\ calls[r][k].cluster.status = "installed"
             /\ AgeOf(calls[r][k].name) > 30

Fetched(r, j) ==
    \E k \in CallIdx(r) : IsMetadata(calls[r][k]) /\ calls[r][k].i = j

\* C4: without --all a failure older than 30 days is passed over (no metadata
\* fetch, no ticket call); a failure not older than 30 days, and with --all
\* every failure, has its metadata fetched when the loop comes to it.
C4_AgeFilter ==
    \A r \in active : \A j \in 1..Len(failed_clusters[r]) :
        LET old == AgeOf(failed_clusters[r][j]) > 30
        IN /\ (~all[r] /\ old) =>
                 \A k \in CallIdx(r) :
                    (IsMetadata(calls[r][k]) \/ calls[r][k].op \in TicketOps)
                        => calls[r][k].i # j
           /\ ((all[r] \/ ~old) /\ (i[r] > j \/ (i[r] = j /\ pc[r] # "loop")))
                 => Fetched(r, j)

\* A run without --all ended after it passed over a failure of 31 days and
\* fetched one of 30 days.
C4_Witness ==
    \E r \in active :
        /\ pc[r] = "done"
        /\ ~all[r]
        /\ \E j, k \in 1..Len(failed_clusters[r]) :
             /\ AgeOf(failed_clusters[r][j]) = 31 /\ ~Fetched(r, j)
             /\ AgeOf(failed_clusters[r][k]) = 30 /\ Fetched(r, k)

\* get_all_triage_tickets has returned to main.
Returned(r) == pc[r] \in {"check", "loop", "create", "watch", "signatures", "done"}

C5_Pagination ==
    \A r \in active :
        LET P == Pages(r)
            n == Len(P)
        IN /\ \A k \in 1..n : P[k].startAt = 100 * (k - 1)
           /\ \A k \in 1..(n - 1) : P[k].n > 0
           /\ pc[r] = "search" => \A k \in 1..n : P[k].n > 0
           /\ Returned(r) =>
                 /\ n >= 1
                 /\ P[n].n = 0
                 /\ summaries[r] = UNION {P[k].sums : k \in 1..(n - 1)}
                 /\ \A k \in 1..(n - 1) :
                       \A p \in (P[k].startAt + 1)..(P[k].startAt + P[k].n) :
                          tracker[p] \in summaries[r]

\* C5: get_all_triage_tickets searches at 0, 100, 200, ...; it returns at the
\* first search that gives no issue, at no other, and searches no more; the
\* set it returns is the union of the summaries of the pages before that one;
\* and it does return.
C5_PaginationStopsAtFirstEmptyPage ==
    /\ []C5_Pagination
    /\ \A r \in RunIds : (pc[r] = "search") ~> (pc[r] # "search")

\* The search returned after two full pages, with a failure's ticket in the
\* second.
C5_Witness ==
    \E r \in active :
        /\ Returned(r)
        /\ Len(Pages(r)) >= 3
        /\ \E nm \in Names : /\ SummaryOf(nm) \in Pages(r)[2].sums
                             /\ SummaryOf(nm) \notin Pages(r)[1].sums

\* The first search of run r gave no issue: the tracker holds none.
ZeroIssues(r) ==
    \E k \in CallIdx(r) :
        /\ IsSearch(calls[r][k])
        /\ calls[r][k].startAt = 0
        /\ calls[r][k].n = 0

\* C6: when the tracker returns no triage issue at all, main raises
\* ConnectionError before any metadata fetch, ticket call or closer call.
C6_EmptyTrackerIsAnError ==
    \A r \in active :
        (ZeroIssues(r) /\ pc[r] # "check") =>
            /\ pc[r] = "raised"
            /\ exc[r] = "ConnectionError"
            /\ \A k \in CallIdx(r) :
                  /\ ~IsMetadata(calls[r][k])
                  /\ calls[r][k].op \notin TicketOps
                  /\ calls[r][k].op # "run_using_json"

\* The run raised ConnectionError with a failure of 30 days in its listing.
C6_Witness ==
    \E r \in active :
        /\ ZeroIssues(r)
        /\ exc[r] = "ConnectionError"
        /\ \E j \in 1..Len(failed_clusters[r]) : AgeOf(failed_clusters[r][j]) = 30

\* The ticket calls of iteration j of run r, in order.
TicketCalls(r, j) ==
    LET Mine(c) == c.op \in TicketOps /\ c.i = j
    IN SelectSeq(calls[r], Mine)

\* What create_issue must carry for failure `name` with metadata md.  The
\* version is "OpenShift <major>.<minor>": tokens 1 and 3 of the version.
ExpectedCreate(name, md, c) ==
    /\ c.op = "create_issue"
    /\ c.summary = "cloud.redhat.com failure: " \o Str(name)
    /\ c.versions =
          <<"OpenShift " \o md.openshift_version[1] \o "." \o md.openshift_version[3]>>
    /\ Len(c.labels) = 5
    /\ Range(c.labels) = {"no-qe", "AI_CLOUD_TRIAGE", "AI_CLUSTER_" \o md.id,
                          "AI_USER_" \o md.user_name,
                          "AI_DOMAIN_" \o md.email_domain}

\* C7: an eligible failure in error with no ticket among the fetched
\* summaries gets exactly one create_issue call with the summary, the
\* "OpenShift <major>.<minor>" version and the five labels; then one
\* add_watcher per default watcher, in order; then add_signatures.
C7_TicketCreation ==
    \A r \in active : \A k \in ErrorFetches(r) :
        LET m == calls[r][k]
            T == TicketCalls(r, m.i)
        IN SummaryOf(m.name) \notin FetchedSet(r) =>
             /\ Len(T) <= 4
             /\ Len(T) = 0 => pc[r] = "create" /\ i[r] = m.i
             /\ Len(T) >= 1 => ExpectedCreate(m.name, m.cluster, T[1])
             /\ Len(T) >= 2 => /\ T[1].ok
                               /\ T[2].op = "add_watcher"
                               /\ T[2].watcher = "ronniela"
                               /\ T[2].key = T[1].key
             /\ Len(T) >= 3 => /\ T[2].ok
                               /\ T[3].op = "add_watcher"
                               /\ T[3].watcher = "odepaz"
                               /\ T[3].key = T[1].key
             /\ Len(T) >= 4 => /\ T[3].ok
                               /\ T[4].op = "add_signatures"
                               /\ T[4].key = T[1].key
                               /\ T[4].url = LOGS_COLLECTOR \o "/files/" \o Str(m.name)
             /\ i[r] > m.i => Len(T) = 4 /\ T[4].ok
             /\ (Len(T) >= 1 /\ T[1].ok) => tracker[T[1].key] = T[1].summary

\* The ticket of cluster abc at 4.12.3 was created, watched and signed.
C7_Witness ==
    \E r \in active : \E k \in ErrorFetches(r) :
        LET m == calls[r][k]
            T == TicketCalls(r, m.i)
        IN /\ pc[r] = "done"
           /\ SummaryOf(m.name) \notin FetchedSet(r)
           /\ m.cluster.openshift_version = <<"4", ".", "12", ".", "3">>
           /\ Len(T) = 4
           /\ T[1].versions = <<"OpenShift 4.12">>
           /\ T[1].summary = "cloud.redhat.com failure: 2026-10-02_cluster_def"
           /\ "AI_CLUSTER_abc" \in Range(T[1].labels)
           /\ T[4].ok

\* C8: a metadata fetch that answers with an HTTP error ends the run there:
\* HTTPError is raised, the fetch is the run's last call (no retry, no later
\* fetch, ticket or closer), and the tickets created before it remain.
C8_AbortOnMetadataError ==
    \A r \in active : \A k \in CallIdx(r) :
        (IsMetadata(calls[r][k]) /\ calls[r][k].status_code >= 400) =>
            /\ k = Len(calls[r])
            /\ pc[r] = "raised"
            /\ exc[r] = "HTTPError"
            /\ i[r] = calls[r][k].i
            /\ \A m \in 1..(k - 1) :
                  (IsCreate(calls[r][m]) /\ calls[r][m].ok) =>
                      tracker[calls[r][m].key] = calls[r][m].summary

\* The second fetch failed after the first failure got its ticket.
C8_Witness ==
    \E r \in active : \E k \in CallIdx(r) :
        /\ IsMetadata(calls[r][k])
        /\ calls[r][k].status_code >= 400
        /\ calls[r][k].i = 2
        /\ i[r] < Len(failed_clusters[r]) + 1
        /\ \E m \in 1..(k - 1) : IsCreate(calls[r][m]) /\ calls[r][m].ok

NoColon(arg) == arg.given /\ ":" \notin Range(arg.value)

ParseErrorLogged(r) ==
    \E k \in CallIdx(r) :
        /\ calls[r][k].op = "logger.error"
        /\ calls[r][k].msg = "Failed to parse user:password"

\* C9: with a --user-password that has no ":", the parse error is logged and
\* main goes on to get_jira_client with username and password unbound (where
\* reading username raises UnboundLocalError).
C9_ParseFailureNotFatal ==
    \A r \in active :
        (NoColon(user_password[r]) /\ pc[r] # "start") =>
            /\ ParseErrorLogged(r)
            /\ username[r] = Unbound
            /\ password[r] = Unbound
            /\ \/ pc[r] = "auth" /\ exc[r] = "none"
               \/ pc[r] = "raised" /\ exc[r] = "UnboundLocalError"

\* Main stands at get_jira_client after the parse of "up" failed.
C9_Witness ==
    \E r \in active :
        /\ user_password[r] = Given(<<"u", "p">>)
        /\ pc[r] = "auth"
        /\ ParseErrorLogged(r)
        /\ username[r] = Unbound

TicketsWith(summary) == {p \in 1..Len(tracker) : tracker[p] = summary}

\* Run r is past iteration j, whose cluster was in error and whose summary
\* was not among the summaries r fetched.
PastNewError(r, j) ==
    /\ i[r] > j
    /\ \E k \in ErrorFetches(r) : calls[r][k].i = j
    /\ SummaryOf(failed_clusters[r][j]) \notin FetchedSet(r)

\* C10: nothing guards against two runs: when both fetched the existing
\* tickets before either created the ticket of a failure, and both went
\* through that failure, the tracker holds two tickets with its summary.
C10_RaceCreatesDuplicates ==
    \A r1, r2 \in active : \A j1 \in 1..Len(failed_clusters[r1]) :
        \A j2 \in 1..Len(failed_clusters[r2]) :
            (/\ r1 # r2
             /\ failed_clusters[r1][j1] = failed_clusters[r2][j2]
             /\ PastNewError(r1, j1)
             /\ PastNewError(r2, j2))
            => Cardinality(TicketsWith(SummaryOf(failed_clusters[r1][j1]))) >= 2

\* Both runs ended; each created a ticket for the same failure.
C10_Witness ==
    /\ \A r \in active : pc[r] = "done"
    /\ PastNewError(1, 1)
    /\ PastNewError(2, 1)
    /\ Cardinality(TicketsWith(SummaryOf(listing[1]))) = 2
    /\ \E k \in CallIdx(1) : IsCreate(calls[1][k]) /\ calls[1][k].ok
    /\ \E k \in CallIdx(2) : IsCreate(calls[2][k]) /\ calls[2][k].ok

====
